---- MODULE Spec2Model ----
(***************************************************************************)
(* A model of src/profile-handler.cc: the ProfileHandler singleton (the    *)
(* callback registry, the two spin locks, the signal disposition), the     *)
(* TimerProfileEventSource (the timer-sharing detection) and the signal    *)
(* handler, run by several threads.                                         *)
(*                                                                         *)
(* Environment assumptions, which the source does not decide:              *)
(*  - setitimer/getitimer/sigaction succeed;                                *)
(*  - the interval timer is either one per process (osShared) or one per   *)
(*    thread, fixed for the whole run; a per-thread timer of a thread that *)
(*    never set it is not running;                                          *)
(*  - operator new returns an address that is not currently allocated;     *)
(*  - a signal is delivered to a thread only while the disposition is the  *)
(*    handler, and never to a thread that is already running the handler   *)
(*    (the signal is blocked during its own handler: no SA_NODEFER).       *)
(***************************************************************************)
EXTENDS Integers, Sequences, FiniteSets, TLC

\* ---- bounds ----
NumThreads == 2
MaxTokens == 2
MaxInterrupts == 1
MaxTicks == 2

\* ---- program constants ----
kMaxFrequency == 4000
kDefaultFrequency == 100
GetTicksSinceLastCall == 1

Threads == 1..NumThreads
TokenIds == 1..MaxTokens
\* The consumers a caller may register: a callback and its argument.
Consumers == { <<"cbA", "argA">>, <<"cbB", "argB">> }

NoThread == 0
NoToken == 0
\* signal_lock_ when no one holds it; held, it is <<thread, "mutator" or "handler">>.
Unheld == << NoThread, "none" >>
Free == [callback |-> "none", callback_arg |-> "none"]
NoState == [interrupts |-> -1, frequency |-> -1, callback_count |-> -1]
NULL == 0

\* ---- the environment getenv reads ----
\* A variable that is not set (getenv returns NULL), and one set to a value.
\* The value of CPUPROFILE_FREQUENCY is a sequence of characters, the values
\* of the other two variables are strings.
NotSet(empty) == [set |-> FALSE, value |-> empty]
SetTo(v) == [set |-> TRUE, value |-> v]
NoEnvironment ==
  [CPUPROFILE_FREQUENCY |-> NotSet(<< >>),
   CPUPROFILE_EVENT |-> NotSet(""),
   CPUPROFILE_REALTIME |-> NotSet("")]

VARIABLES
  pc,               \* [Threads -> position of the thread's ordinary code]
  tok,              \* [Threads -> the token of the RegisterCallback / UnregisterCallback in progress]
  it,               \* [Threads -> CallbackIterator of UnregisterCallback (an index)]
  state,            \* [Threads -> the ProfileHandlerState GetState is filling]
  hpc,              \* [Threads -> position of the signal handler running on the thread]
  calls,            \* [Threads -> the callback invocations of the delivery in progress]
  sh_ticks,         \* [Threads -> SignalHandler's local ticks]
  errno,            \* [Threads -> the thread's errno]
  saved_errno,      \* [Threads -> SignalHandler's saved_errno]
  heap,             \* [TokenIds -> the ProfileHandlerToken at that address, or Free]
  callbacks_,       \* ProfileHandler::callbacks_
  callback_count_,  \* ProfileHandler::callback_count_
  interrupts_,      \* ProfileHandler::interrupts_
  frequency_,       \* ProfileHandler::frequency_
  event_source_,    \* ProfileHandler::event_source_: the strategy BuildEventSource chose
  control_lock_,    \* holder of ProfileHandler::control_lock_
  signal_lock_,     \* holder of ProfileHandler::signal_lock_: <<thread, context>>, or Unheld
  sigaction,        \* disposition of the profiling signal
  timer_sharing_,   \* TimerProfileEventSource::timer_sharing_
  timer,            \* [Threads -> whether the interval timer the thread sees is running]
  osShared,         \* whether the OS interval timer is one per process
  faulty,           \* whether the OS may refuse setitimer, getitimer or sigaction
  environ,          \* the process environment getenv reads
  pthreads,         \* what the pthread_once symbol resolves to
  once_,            \* ProfileHandler::once_
  instance_,        \* ProfileHandler::instance_: NULL or a ProfileHandler object
  objects,          \* the number of ProfileHandler objects constructed so far
  ipc,              \* [Threads -> position of the thread in Instance()]
  obj,              \* [Threads -> the object the thread's Init() is constructing]
  ret,              \* [Threads -> what Instance() returned to the thread]
  fatal,            \* the process was ended by RAW_CHECK / RAW_LOG(FATAL)
  detection,        \* history of the sharing detection on this instance (see Fresh .. WasReset)
  redetection,      \* history of the sharing detection since the last Reset (see Untracked, NotReset)
  registered        \* the threads that have called RegisterThread, where that history is kept

vars == << pc, tok, it, state, hpc, calls, sh_ticks, errno, saved_errno, heap,
           callbacks_, callback_count_, interrupts_, frequency_, event_source_,
           control_lock_, signal_lock_, sigaction, timer_sharing_, timer,
           osShared, faulty, environ, pthreads, once_, instance_, objects,
           ipc, obj, ret, fatal, detection, redetection, registered >>

locals == << tok, it, state >>
handlerVars == << hpc, calls, sh_ticks, errno, saved_errno >>
config == << frequency_, event_source_ >>
environment == << osShared, faulty >>
startup == << environ, pthreads, once_, instance_, objects, ipc, obj, ret >>
registry == << heap, callbacks_ >>
sourceVars == << timer_sharing_, timer >>
history == << detection, redetection, registered >>

\* ---- the history variable ----
\* No RegisterThread and no Reset since construction.
Fresh == [kind |-> "fresh", first |-> NoThread]
\* No Reset so far, and one RegisterThread, by thread a.
First(a) == [kind |-> "first", first |-> a]
\* No Reset so far, and the first two RegisterThread calls came from two threads.
Distinct == [kind |-> "distinct", first |-> NoThread]
\* No Reset so far, and the first two RegisterThread calls came from one thread.
Same == [kind |-> "same", first |-> NoThread]
\* Reset has run.
WasReset == [kind |-> "reset", first |-> NoThread]

\* detection after a RegisterThread by thread t
Registered(t) ==
  CASE detection.kind = "fresh" -> First(t)
    [] detection.kind = "first" -> IF detection.first # t THEN Distinct ELSE Same
    [] OTHER -> detection

\* The history since the last Reset and the registered threads are not kept.
Untracked == [kind |-> "untracked", first |-> NoThread]
\* Reset has not run.
NotReset == [kind |-> "none", first |-> NoThread]

\* redetection after a RegisterThread by thread t: as detection, counted from
\* the last Reset.
Reregistered(t) ==
  CASE redetection.kind = "fresh" -> First(t)
    [] redetection.kind = "first" -> IF redetection.first # t THEN Distinct ELSE Same
    [] OTHER -> redetection

\* ---- helpers ----
Range(s) == { s[i] : i \in 1..Len(s) }

\* Mutant of Erase: the entry stays in the list.
EraseNothing(s, i) == s

\* list::erase(it)
Erase(s, i) == SubSeq(s, 1, i - 1) \o SubSeq(s, i + 1, Len(s))

\* Mutant of Find: a known token is taken to be at begin().
FindAtBegin(s, token) == IF token \in Range(s) THEN 1 ELSE 0

\* The loop of UnregisterCallback: the first position holding the token, 0 at end().
Find(s, token) ==
  IF token \in Range(s)
    THEN CHOOSE i \in 1..Len(s) : s[i] = token /\ \A j \in 1..(i - 1) : s[j] # token
    ELSE 0

\* operator new: any address not currently allocated.
FreeAddresses == { a \in TokenIds : heap[a] = Free }

\* ---- the OS interval timer ----
\* it_interval.tv_usec = 1000000 / handler_.GetFrequency()
IntervalUsec == 1000000 \div frequency_

\* What setitimer leaves of the timers: the timers as asked for when it
\* returns 0, or as they were when it returns -1, which it does for a tv_usec
\* of a second or more and may do on a faulty OS. Neither StartTimer nor
\* StopTimer looks at what it returned.
Setitimer(asked, usec) ==
  IF usec >= 1000000 THEN { timer }
  ELSE IF faulty THEN { timer, asked }
  ELSE { asked }

\* setitimer with a non-zero interval
StartTimer(t) ==
  timer' \in Setitimer(IF osShared THEN [u \in Threads |-> TRUE]
                                   ELSE [timer EXCEPT ![t] = TRUE],
                       IntervalUsec)

\* setitimer with a zero interval
StopTimer(t) ==
  timer' \in Setitimer(IF osShared THEN [u \in Threads |-> FALSE]
                                   ELSE [timer EXCEPT ![t] = FALSE],
                       0)

\* Mutant of IsTimerRunning: the timer is taken to be running.
IsTimerRunningAlways(t) == TRUE

\* getitimer: it_value is non-zero
IsTimerRunning(t) == timer[t]

\* ---- the signal disposition ----
EnableHandler == sigaction' = "SignalHandler"

\* Mutant of DisableHandler: the disposition is left as it is.
DisableHandlerNot == UNCHANGED sigaction

DisableHandler == sigaction' = "SIG_IGN"

\* ---- construction ----
\* The state once Instance() has constructed the singleton, but for the
\* configuration the constructor reads from the environment.
Constructed ==
  /\ pc = [t \in Threads |-> "idle"]
  /\ tok = [t \in Threads |-> NoToken]
  /\ it = [t \in Threads |-> 0]
  /\ state = [t \in Threads |-> NoState]
  /\ hpc = [t \in Threads |-> "none"]
  /\ calls = [t \in Threads |-> << >>]
  /\ sh_ticks = [t \in Threads |-> 0]
  /\ errno = [t \in Threads |-> 0]
  /\ saved_errno = [t \in Threads |-> 0]
  /\ heap = [a \in TokenIds |-> Free]
  /\ callbacks_ = << >>
  /\ callback_count_ = 0
  /\ interrupts_ = 0
  /\ control_lock_ = NoThread
  /\ signal_lock_ = Unheld
  /\ sigaction = "SIG_IGN"
  /\ timer_sharing_ = "TIMERS_UNTOUCHED"
  /\ timer = [t \in Threads |-> FALSE]
  /\ osShared \in BOOLEAN
  /\ fatal = FALSE
  /\ detection = Fresh
  /\ registered = {}
  /\ pthreads = "linked"
  /\ once_ = "done"
  /\ instance_ = 1
  /\ objects = 1
  /\ ipc = [t \in Threads |-> "none"]
  /\ obj = [t \in Threads |-> NULL]
  /\ ret = [t \in Threads |-> NULL]

\* The singleton constructed with none of the three variables set, on an OS
\* that refuses no call.
Init ==
  /\ Constructed
  /\ environ = NoEnvironment
  /\ frequency_ = kDefaultFrequency
  /\ event_source_ = "timer-cpu"
  /\ faulty = FALSE
  /\ redetection = Untracked

\* ---- sscanf(fr, "%u%c", &frequency_, &junk) ----
\* An unsigned 32-bit value is kept as two 16-bit halves [hi, lo].
Half == 65536
DigitValue ==
  [c \in {"0", "1", "2", "3", "4", "5", "6", "7", "8", "9"} |->
     CASE c = "0" -> 0 [] c = "1" -> 1 [] c = "2" -> 2 [] c = "3" -> 3
       [] c = "4" -> 4 [] c = "5" -> 5 [] c = "6" -> 6 [] c = "7" -> 7
       [] c = "8" -> 8 [] c = "9" -> 9]
IsDigit(c) == c \in DOMAIN DigitValue
IsSpace(c) == c \in {" ", "\t", "\n"}

\* The first position at or after i that holds no white space.
RECURSIVE SkipSpace(_, _)
SkipSpace(s, i) ==
  IF i <= Len(s) /\ IsSpace(s[i]) THEN SkipSpace(s, i + 1) ELSE i

\* The first position at or after i that holds no digit.
RECURSIVE DigitsEnd(_, _)
DigitsEnd(s, i) ==
  IF i <= Len(s) /\ IsDigit(s[i]) THEN DigitsEnd(s, i + 1) ELSE i

\* acc * 10 + d in 32 bits; overflow records that the value left 32 bits.
TimesTenPlus(acc, d) ==
  LET lo10 == acc.lo * 10 + d
      hi10 == acc.hi * 10 + (lo10 \div Half)
  IN [hi |-> hi10 % Half, lo |-> lo10 % Half,
      overflow |-> acc.overflow \/ hi10 >= Half]

\* The digits s[i..j-1] read as a number, after acc.
RECURSIVE ReadDigits(_, _, _, _)
ReadDigits(s, i, j, acc) ==
  IF i < j THEN ReadDigits(s, i + 1, j, TimesTenPlus(acc, DigitValue[s[i]]))
           ELSE acc

\* Unsigned negation in 32 bits, which the conversion applies after a '-'.
Negated(v) ==
  IF v.hi = 0 /\ v.lo = 0 THEN v
  ELSE [hi |-> (Half - 1 - v.hi + (IF v.lo = 0 THEN 1 ELSE 0)) % Half,
        lo |-> (Half - v.lo) % Half,
        overflow |-> v.overflow]

\* What %u can store: the value in 32 bits; when the digits do not fit, the
\* conversion is undefined, and the libraries store either the low 32 bits or
\* the largest value.
Stored(v) ==
  IF v.overflow THEN { [hi |-> v.hi, lo |-> v.lo], [hi |-> Half - 1, lo |-> Half - 1] }
                ELSE { [hi |-> v.hi, lo |-> v.lo] }

\* sscanf(fr, "%u%c", ...): the return value (-1 for EOF) and what frequency_
\* may hold afterwards. %u skips white space and takes a sign; %c takes the
\* next character, whatever it is.
Sscanf(fr) ==
  LET p == SkipSpace(fr, 1)
      signed == p <= Len(fr) /\ fr[p] \in {"+", "-"}
      q == IF signed THEN p + 1 ELSE p
      e == DigitsEnd(fr, q)
      v == ReadDigits(fr, q, e, [hi |-> 0, lo |-> 0, overflow |-> FALSE])
  IN IF p > Len(fr) THEN [count |-> -1, stored |-> {}]
     ELSE IF e = q THEN [count |-> 0, stored |-> {}]
     ELSE [count |-> IF e <= Len(fr) THEN 2 ELSE 1,
           stored |-> Stored(IF signed /\ fr[p] = "-" THEN Negated(v) ELSE v)]

\* frequency_ > 0, frequency_ being an int32 that holds the stored bits.
IsPositiveInt32(u) == u.hi < Half \div 2 /\ ~(u.hi = 0 /\ u.lo = 0)

\* (frequency_ > kMaxFrequency) ? kMaxFrequency : frequency_
Clamped(u) == IF u.hi > 0 \/ u.lo > kMaxFrequency THEN kMaxFrequency ELSE u.lo

\* The values the constructor can leave in frequency_: fr != NULL, sscanf
\* returned 1 and frequency_ > 0, or else kDefaultFrequency.
Frequencies(env) ==
  LET fr == env.CPUPROFILE_FREQUENCY
      r == Sscanf(fr.value)
  IN IF fr.set /\ r.count = 1
       THEN { IF IsPositiveInt32(u) THEN Clamped(u) ELSE kDefaultFrequency :
                u \in r.stored }
       ELSE { kDefaultFrequency }

\* ---- ProfileHandler::BuildEventSource ----
\* The strategy chosen, named by the string that selects it.
BuildEventSource(env) ==
  LET named == IF env.CPUPROFILE_EVENT.set THEN env.CPUPROFILE_EVENT.value
               ELSE IF env.CPUPROFILE_REALTIME.set THEN "timer-realtime"
               ELSE ""
      use_event_source_type == IF named = "" THEN "timer-cpu" ELSE named
  IN IF use_event_source_type = "timer-realtime" THEN "timer-realtime"
     ELSE IF use_event_source_type = "thread-wallclock" THEN "thread-wallclock"
     ELSE "timer-cpu"

\* ---- the environments and the start of the process ----
FrequencyOverrides ==
  { << >>, <<"0">>, <<"1">>, <<"5", "0">>, <<"0", "5", "0">>,
    <<"4", "0", "0", "0">>, <<"4", "0", "0", "1">>,
    <<"1", "0", "0", "0", "0">>,
    <<"2", "1", "4", "7", "4", "8", "3", "6", "4", "7">>,
    <<"2", "1", "4", "7", "4", "8", "3", "6", "4", "8">>,
    <<"4", "2", "9", "4", "9", "6", "7", "2", "9", "5">>,
    <<"4", "2", "9", "4", "9", "6", "7", "2", "9", "7">>,
    <<"a", "b", "c">>, <<"5", "0", "x">>, <<"5", "0", " ">>, <<"5", ".", "5">>,
    <<" ", "5", "0">>, <<"+", "5", "0">>, <<"-", "5", "0">> }
EventOverrides ==
  { "", "timer-realtime", "thread-wallclock", "timer-cpu", "hardware" }
RealtimeFlags == { "", "1" }

Environments ==
  [CPUPROFILE_FREQUENCY : { NotSet(<< >>) } \cup { SetTo(f) : f \in FrequencyOverrides },
   CPUPROFILE_EVENT : { NotSet("") } \cup { SetTo(e) : e \in EventOverrides },
   CPUPROFILE_REALTIME : { NotSet("") } \cup { SetTo(r) : r \in RealtimeFlags }]

\* The process before any entry point was called: no ProfileHandler exists.
\* pthread_once is the library's ("linked"), a stub that does nothing
\* ("stub", FreeBSD without its thread library) or NULL ("absent").
Unconstructed ==
  /\ pc = [t \in Threads |-> "idle"]
  /\ tok = [t \in Threads |-> NoToken]
  /\ it = [t \in Threads |-> 0]
  /\ state = [t \in Threads |-> NoState]
  /\ hpc = [t \in Threads |-> "none"]
  /\ calls = [t \in Threads |-> << >>]
  /\ sh_ticks = [t \in Threads |-> 0]
  /\ errno = [t \in Threads |-> 0]
  /\ saved_errno = [t \in Threads |-> 0]
  /\ heap = [a \in TokenIds |-> Free]
  /\ callbacks_ = << >>
  /\ callback_count_ = 0
  /\ interrupts_ = 0
  /\ frequency_ = 0
  /\ event_source_ = "none"
  /\ control_lock_ = NoThread
  /\ signal_lock_ = Unheld
  /\ sigaction = "SIG_DFL"
  /\ timer_sharing_ = "TIMERS_UNTOUCHED"
  /\ timer = [t \in Threads |-> FALSE]
  /\ osShared \in BOOLEAN
  /\ faulty = FALSE
  /\ fatal = FALSE
  /\ detection = Fresh
  /\ redetection = Untracked
  /\ registered = {}
  /\ environ \in Environments
  /\ pthreads \in { "linked", "stub", "absent" }
  /\ once_ = "PTHREAD_ONCE_INIT"
  /\ instance_ = NULL
  /\ objects = 0
  /\ ipc = [t \in Threads |-> "none"]
  /\ obj = [t \in Threads |-> NULL]
  /\ ret = [t \in Threads |-> NULL]

\* What the steps of Instance() leave alone.
coordinator == << pc, locals, handlerVars, registry, callback_count_,
                  interrupts_, control_lock_, signal_lock_, timer_sharing_,
                  timer, environment, environ, pthreads, fatal, history >>

\* ---- ProfileHandler::Instance ----
\* A public entry point calls Instance(). A process that has threads has the
\* thread library linked; without it, the process is its initial thread.
I_Call(t) ==
  /\ ipc[t] \in { "none", "returned" }
  /\ pthreads = "linked" \/ t = 1
  /\ ipc' = [ipc EXCEPT ![t] = IF pthreads = "linked" THEN "once" ELSE "check"]
  /\ UNCHANGED << coordinator, config, sigaction, once_, instance_, objects,
                  obj, ret >>

\* Mutant of I_Once: every caller runs the init routine.
I_OnceEveryCaller(t) ==
  /\ ipc[t] = "once"
  /\ once_' = "in_progress"
  /\ ipc' = [ipc EXCEPT ![t] = "ctor"]
  /\ UNCHANGED << coordinator, config, sigaction, instance_, objects, obj, ret >>

\* pthread_once(&once_, Init): the first caller runs Init; a caller that
\* arrives while Init runs waits for it to return; later callers return at
\* once.
I_Once(t) ==
  /\ ipc[t] = "once"
  /\ once_ # "in_progress"
  /\ IF once_ = "PTHREAD_ONCE_INIT"
       THEN /\ once_' = "in_progress"
            /\ ipc' = [ipc EXCEPT ![t] = "ctor"]
       ELSE /\ ipc' = [ipc EXCEPT ![t] = "check"]
            /\ UNCHANGED once_
  /\ UNCHANGED << coordinator, config, sigaction, instance_, objects, obj, ret >>

\* new ProfileHandler(): the constructor, on an object no other thread can
\* reach yet. It builds the event source, reads the frequency and ignores the
\* signal.
I_Ctor(t) ==
  /\ ipc[t] = "ctor"
  /\ objects' = objects + 1
  /\ obj' = [obj EXCEPT ![t] = objects']
  /\ event_source_' = BuildEventSource(environ)
  /\ frequency_' \in Frequencies(environ)
  /\ DisableHandler
  /\ ipc' = [ipc EXCEPT ![t] = "assign"]
  /\ UNCHANGED << coordinator, once_, instance_, ret >>

\* instance_ = ...; and Init returns, to pthread_once or to Instance().
I_Assign(t) ==
  /\ ipc[t] = "assign"
  /\ instance_' = obj[t]
  /\ once_' = IF once_ = "in_progress" THEN "done" ELSE once_
  /\ ipc' = [ipc EXCEPT ![t] = "check"]
  /\ UNCHANGED << coordinator, config, sigaction, objects, obj, ret >>

\* if (instance_ == NULL) Init(); return instance_;
I_Check(t) ==
  /\ ipc[t] = "check"
  /\ IF instance_ = NULL
       THEN /\ ipc' = [ipc EXCEPT ![t] = "ctor"]
            /\ UNCHANGED ret
       ELSE /\ ipc' = [ipc EXCEPT ![t] = "returned"]
            /\ ret' = [ret EXCEPT ![t] = instance_]
  /\ UNCHANGED << coordinator, config, sigaction, once_, instance_, objects, obj >>

ConstructNext ==
  \E t \in Threads :
    I_Call(t) \/ I_Once(t) \/ I_Ctor(t) \/ I_Assign(t) \/ I_Check(t)

ConstructSpec == Unconstructed /\ [][ConstructNext]_vars

\* A thread runs its ordinary code only while no handler runs on it.
Runs(t, at) == ~fatal /\ hpc[t] = "none" /\ pc[t] = at

Goto(t, to) == pc' = [pc EXCEPT ![t] = to]

\* ---- TimerProfileEventSource ----
\* Mutant of ES_RegisterThread: with shared timers and no callback, the
\* detection starts over.
ES_RegisterThreadAgain(t, callback_count) ==
  CASE timer_sharing_ = "TIMERS_UNTOUCHED" ->
         /\ StartTimer(t)
         /\ timer_sharing_' = "TIMERS_ONE_SET"
    [] timer_sharing_ = "TIMERS_ONE_SET" ->
         IF IsTimerRunning(t)
           THEN /\ timer_sharing_' = "TIMERS_SHARED"
                /\ IF callback_count = 0 THEN StopTimer(t) ELSE UNCHANGED timer
           ELSE /\ timer_sharing_' = "TIMERS_SEPARATE"
                /\ StartTimer(t)
    [] timer_sharing_ = "TIMERS_SHARED" ->
         /\ timer_sharing_' = IF callback_count = 0 THEN "TIMERS_UNTOUCHED"
                                                    ELSE timer_sharing_
         /\ UNCHANGED timer
    [] timer_sharing_ = "TIMERS_SEPARATE" ->
         /\ StartTimer(t)
         /\ UNCHANGED timer_sharing_

ES_RegisterThread(t, callback_count) ==
  CASE timer_sharing_ = "TIMERS_UNTOUCHED" ->
         /\ StartTimer(t)
         /\ timer_sharing_' = "TIMERS_ONE_SET"
    [] timer_sharing_ = "TIMERS_ONE_SET" ->
         IF IsTimerRunning(t)
           THEN /\ timer_sharing_' = "TIMERS_SHARED"
                /\ IF callback_count = 0 THEN StopTimer(t) ELSE UNCHANGED timer
           ELSE /\ timer_sharing_' = "TIMERS_SEPARATE"
                /\ StartTimer(t)
    [] timer_sharing_ = "TIMERS_SHARED" ->
         UNCHANGED << timer_sharing_, timer >>
    [] timer_sharing_ = "TIMERS_SEPARATE" ->
         /\ StartTimer(t)
         /\ UNCHANGED timer_sharing_

ES_RegisteredCallback(t, new_callback_count) ==
  /\ IF new_callback_count = 1 /\ timer_sharing_ = "TIMERS_SHARED"
       THEN StartTimer(t)
       ELSE UNCHANGED timer
  /\ UNCHANGED timer_sharing_

\* Mutant of ES_UnregisteredCallback: the timer is never stopped.
ES_UnregisteredCallbackKeeps(t, new_callback_count) ==
  UNCHANGED << timer, timer_sharing_ >>

\* Mutant of ES_UnregisteredCallback: the timer is stopped whatever the
\* sharing state.
ES_UnregisteredCallbackStops(t, new_callback_count) ==
  /\ IF new_callback_count = 0 THEN StopTimer(t) ELSE UNCHANGED timer
  /\ UNCHANGED timer_sharing_

ES_UnregisteredCallback(t, new_callback_count) ==
  /\ IF new_callback_count = 0 /\ timer_sharing_ = "TIMERS_SHARED"
       THEN StopTimer(t)
       ELSE UNCHANGED timer
  /\ UNCHANGED timer_sharing_

ES_Reset(t) ==
  /\ IF timer_sharing_ = "TIMERS_SHARED" THEN StopTimer(t) ELSE UNCHANGED timer
  /\ timer_sharing_' = "TIMERS_UNTOUCHED"

\* ---- ThreadProfileEventSource ----
\* The hooks of the thread-wallclock source, from the specification (2, 6: an
\* external strategy with the same interface): it owns no interval timer, so
\* the timer and the sharing state stay as they are.
TS_Hook == UNCHANGED << timer_sharing_, timer >>

\* ---- event_source_->..., the virtual calls ----
Source_RegisterThread(t, callback_count) ==
  IF event_source_ = "thread-wallclock" THEN TS_Hook
                                        ELSE ES_RegisterThread(t, callback_count)

Source_RegisteredCallback(t, new_callback_count) ==
  IF event_source_ = "thread-wallclock" THEN TS_Hook
                                        ELSE ES_RegisteredCallback(t, new_callback_count)

Source_UnregisteredCallback(t, new_callback_count) ==
  IF event_source_ = "thread-wallclock" THEN TS_Hook
                                        ELSE ES_UnregisteredCallback(t, new_callback_count)

Source_Reset(t) ==
  IF event_source_ = "thread-wallclock" THEN TS_Hook ELSE ES_Reset(t)

\* ---- ProfileHandler::RegisterThread ----
RT_Lock(t) ==
  /\ Runs(t, "idle")
  /\ control_lock_ = NoThread
  /\ control_lock_' = t
  /\ Goto(t, "rt_body")
  /\ UNCHANGED << locals, handlerVars, registry, callback_count_, interrupts_,
                  config, startup, signal_lock_, sigaction, sourceVars, environment,
                  fatal, history >>

RT_Body(t) ==
  /\ Runs(t, "rt_body")
  /\ Source_RegisterThread(t, callback_count_)
  /\ detection' = Registered(t)
  /\ redetection' = Reregistered(t)
  /\ registered' = IF redetection = Untracked THEN registered
                                              ELSE registered \cup {t}
  /\ control_lock_' = NoThread
  /\ Goto(t, "idle")
  /\ UNCHANGED << locals, handlerVars, registry, callback_count_, interrupts_,
                  config, startup, signal_lock_, sigaction, environment, fatal >>

\* ---- ProfileHandler::RegisterCallback ----
\* new ProfileHandlerToken(callback, callback_arg), then SpinLockHolder
\* cl(&control_lock_): the allocation is private to the caller until the lock
\* is held, so the two are one step.
RC_Lock(t, consumer) ==
  /\ Runs(t, "idle")
  /\ control_lock_ = NoThread
  /\ \E a \in FreeAddresses :
       /\ heap' = [heap EXCEPT ![a] = [callback |-> consumer[1],
                                        callback_arg |-> consumer[2]]]
       /\ tok' = [tok EXCEPT ![t] = a]
  /\ control_lock_' = t
  /\ Goto(t, "rc_disable")
  /\ UNCHANGED << it, state, handlerVars, callbacks_, callback_count_,
                  interrupts_, config, startup, signal_lock_, sigaction,
                  sourceVars, environment, fatal, history >>

RC_Disable(t) ==
  /\ Runs(t, "rc_disable")
  /\ DisableHandler
  /\ Goto(t, "rc_siglock")
  /\ UNCHANGED << locals, handlerVars, registry, callback_count_, interrupts_,
                  config, startup, control_lock_, signal_lock_, sourceVars,
                  environment, fatal, history >>

RC_SigLock(t) ==
  /\ Runs(t, "rc_siglock")
  /\ signal_lock_ = Unheld
  /\ signal_lock_' = << t, "mutator" >>
  /\ Goto(t, "rc_push")
  /\ UNCHANGED << locals, handlerVars, registry, callback_count_, interrupts_,
                  config, startup, control_lock_, sigaction, sourceVars, environment,
                  fatal, history >>

RC_Push(t) ==
  /\ Runs(t, "rc_push")
  /\ callbacks_' = Append(callbacks_, tok[t])
  /\ signal_lock_' = Unheld
  /\ Goto(t, "rc_count")
  /\ UNCHANGED << locals, handlerVars, heap, callback_count_, interrupts_,
                  config, startup, control_lock_, sigaction, sourceVars, environment,
                  fatal, history >>

RC_Count(t) ==
  /\ Runs(t, "rc_count")
  /\ callback_count_' = callback_count_ + 1
  /\ Source_RegisteredCallback(t, callback_count_')
  /\ EnableHandler
  /\ Goto(t, "rc_return")
  /\ UNCHANGED << locals, handlerVars, registry, interrupts_, config, startup,
                  control_lock_, signal_lock_, environment, fatal, history >>

RC_Return(t) ==
  /\ Runs(t, "rc_return")
  /\ control_lock_' = NoThread
  /\ tok' = [tok EXCEPT ![t] = NoToken]
  /\ Goto(t, "idle")
  /\ UNCHANGED << it, state, handlerVars, registry, callback_count_,
                  interrupts_, config, startup, signal_lock_, sigaction, sourceVars,
                  environment, fatal, history >>

\* Mutant of UC_Lock: DisableHandler is called before the loop.
UC_LockDisablesFirst(t, token) ==
  /\ Runs(t, "idle")
  /\ control_lock_ = NoThread
  /\ control_lock_' = t
  /\ tok' = [tok EXCEPT ![t] = token]
  /\ DisableHandler
  /\ IF Find(callbacks_, token) # 0 /\ callback_count_ > 0
       THEN /\ it' = [it EXCEPT ![t] = Find(callbacks_, token)]
            /\ Goto(t, "uc_siglock")
            /\ UNCHANGED fatal
       ELSE /\ fatal' = TRUE
            /\ UNCHANGED << it, pc >>
  /\ UNCHANGED << state, handlerVars, registry, callback_count_,
                  interrupts_, config, startup, signal_lock_, sourceVars,
                  environment, history >>

\* ---- ProfileHandler::UnregisterCallback ----
\* SpinLockHolder cl(&control_lock_) and the loop over callbacks_, which only
\* the holder of control_lock_ can change: at the token, RAW_CHECK and
\* DisableHandler; at end(), RAW_LOG(FATAL, "Invalid token").
UC_Lock(t, token) ==
  /\ Runs(t, "idle")
  /\ control_lock_ = NoThread
  /\ control_lock_' = t
  /\ tok' = [tok EXCEPT ![t] = token]
  /\ IF Find(callbacks_, token) # 0 /\ callback_count_ > 0
       THEN /\ it' = [it EXCEPT ![t] = Find(callbacks_, token)]
            /\ DisableHandler
            /\ Goto(t, "uc_siglock")
            /\ UNCHANGED fatal
       ELSE /\ fatal' = TRUE
            /\ UNCHANGED << it, sigaction, pc >>
  /\ UNCHANGED << state, handlerVars, registry, callback_count_,
                  interrupts_, config, startup, signal_lock_, sourceVars,
                  environment, history >>

UC_SigLock(t) ==
  /\ Runs(t, "uc_siglock")
  /\ signal_lock_ = Unheld
  /\ signal_lock_' = << t, "mutator" >>
  /\ Goto(t, "uc_erase")
  /\ UNCHANGED << locals, handlerVars, registry, callback_count_, interrupts_,
                  config, startup, control_lock_, sigaction, sourceVars, environment,
                  fatal, history >>

\* delete *it; callbacks_.erase(it);
UC_Erase(t) ==
  /\ Runs(t, "uc_erase")
  /\ heap' = [heap EXCEPT ![callbacks_[it[t]]] = Free]
  /\ callbacks_' = Erase(callbacks_, it[t])
  /\ signal_lock_' = Unheld
  /\ Goto(t, "uc_count")
  /\ UNCHANGED << locals, handlerVars, callback_count_, interrupts_,
                  config, startup, control_lock_, sigaction, sourceVars, environment,
                  fatal, history >>

UC_Count(t) ==
  /\ Runs(t, "uc_count")
  /\ callback_count_' = callback_count_ - 1
  /\ IF callback_count_' > 0 THEN EnableHandler ELSE UNCHANGED sigaction
  /\ Source_UnregisteredCallback(t, callback_count_')
  /\ control_lock_' = NoThread
  /\ tok' = [tok EXCEPT ![t] = NoToken]
  /\ it' = [it EXCEPT ![t] = 0]
  /\ Goto(t, "idle")
  /\ UNCHANGED << state, handlerVars, registry, interrupts_, config, startup,
                  signal_lock_, environment, fatal, history >>

\* ---- ProfileHandler::Reset ----
RS_Lock(t) ==
  /\ Runs(t, "idle")
  /\ control_lock_ = NoThread
  /\ control_lock_' = t
  /\ Goto(t, "rs_disable")
  /\ UNCHANGED << locals, handlerVars, registry, callback_count_, interrupts_,
                  config, startup, signal_lock_, sigaction, sourceVars, environment,
                  fatal, history >>

RS_Disable(t) ==
  /\ Runs(t, "rs_disable")
  /\ DisableHandler
  /\ Goto(t, "rs_siglock")
  /\ UNCHANGED << locals, handlerVars, registry, callback_count_, interrupts_,
                  config, startup, control_lock_, signal_lock_, sourceVars,
                  environment, fatal, history >>

RS_SigLock(t) ==
  /\ Runs(t, "rs_siglock")
  /\ signal_lock_ = Unheld
  /\ signal_lock_' = << t, "mutator" >>
  /\ Goto(t, "rs_loop")
  /\ UNCHANGED << locals, handlerVars, registry, callback_count_, interrupts_,
                  config, startup, control_lock_, sigaction, sourceVars, environment,
                  fatal, history >>

\* Mutant of RS_Loop: the loop ends after its first turn.
RS_LoopOnce(t) ==
  /\ Runs(t, "rs_loop")
  /\ IF callbacks_ # << >>
       THEN /\ heap' = [heap EXCEPT ![callbacks_[1]] = Free]
            /\ callbacks_' = Erase(callbacks_, 1)
       ELSE UNCHANGED registry
  /\ signal_lock_' = Unheld
  /\ Goto(t, "rs_count")
  /\ UNCHANGED << locals, handlerVars, callback_count_, interrupts_,
                  config, startup, control_lock_, sigaction, sourceVars, environment,
                  fatal, history >>

\* One turn of the while loop (delete *tmp; callbacks_.erase(tmp) at begin()),
\* or its exit, which releases signal_lock_.
RS_Loop(t) ==
  /\ Runs(t, "rs_loop")
  /\ IF callbacks_ # << >>
       THEN /\ heap' = [heap EXCEPT ![callbacks_[1]] = Free]
            /\ callbacks_' = Erase(callbacks_, 1)
            /\ UNCHANGED << signal_lock_, pc >>
       ELSE /\ signal_lock_' = Unheld
            /\ Goto(t, "rs_count")
            /\ UNCHANGED registry
  /\ UNCHANGED << locals, handlerVars, callback_count_, interrupts_,
                  config, startup, control_lock_, sigaction, sourceVars, environment,
                  fatal, history >>

\* Mutant of RS_Count: Reset also clears the interrupt counter.
RS_CountClearsInterrupts(t) ==
  /\ Runs(t, "rs_count")
  /\ callback_count_' = 0
  /\ interrupts_' = 0
  /\ Source_Reset(t)
  /\ detection' = WasReset
  /\ redetection' = IF redetection = Untracked THEN redetection ELSE Fresh
  /\ UNCHANGED registered
  /\ control_lock_' = NoThread
  /\ Goto(t, "idle")
  /\ UNCHANGED << locals, handlerVars, registry, config, startup,
                  signal_lock_, sigaction, environment, fatal >>

RS_Count(t) ==
  /\ Runs(t, "rs_count")
  /\ callback_count_' = 0
  /\ Source_Reset(t)
  /\ detection' = WasReset
  /\ redetection' = IF redetection = Untracked THEN redetection ELSE Fresh
  /\ UNCHANGED registered
  /\ control_lock_' = NoThread
  /\ Goto(t, "idle")
  /\ UNCHANGED << locals, handlerVars, registry, interrupts_, config, startup,
                  signal_lock_, sigaction, environment, fatal >>

\* ---- ProfileHandler::GetState ----
GS_Lock(t) ==
  /\ Runs(t, "idle")
  /\ control_lock_ = NoThread
  /\ control_lock_' = t
  /\ Goto(t, "gs_disable")
  /\ UNCHANGED << locals, handlerVars, registry, callback_count_, interrupts_,
                  config, startup, signal_lock_, sigaction, sourceVars, environment,
                  fatal, history >>

\* Mutant of GS_Disable: GetState goes for signal_lock_ with the handler
\* still installed.
GS_DisableNot(t) ==
  /\ Runs(t, "gs_disable")
  /\ UNCHANGED sigaction
  /\ Goto(t, "gs_siglock")
  /\ UNCHANGED << locals, handlerVars, registry, callback_count_, interrupts_,
                  config, startup, control_lock_, signal_lock_, sourceVars,
                  environment, fatal, history >>

GS_Disable(t) ==
  /\ Runs(t, "gs_disable")
  /\ DisableHandler
  /\ Goto(t, "gs_siglock")
  /\ UNCHANGED << locals, handlerVars, registry, callback_count_, interrupts_,
                  config, startup, control_lock_, signal_lock_, sourceVars,
                  environment, fatal, history >>

GS_SigLock(t) ==
  /\ Runs(t, "gs_siglock")
  /\ signal_lock_ = Unheld
  /\ signal_lock_' = << t, "mutator" >>
  /\ Goto(t, "gs_read")
  /\ UNCHANGED << locals, handlerVars, registry, callback_count_, interrupts_,
                  config, startup, control_lock_, sigaction, sourceVars, environment,
                  fatal, history >>

GS_Read(t) ==
  /\ Runs(t, "gs_read")
  /\ state' = [state EXCEPT ![t] = [NoState EXCEPT !.interrupts = interrupts_]]
  /\ signal_lock_' = Unheld
  /\ Goto(t, "gs_fill")
  /\ UNCHANGED << tok, it, handlerVars, registry, callback_count_,
                  interrupts_, config, startup, control_lock_, sigaction,
                  sourceVars, environment, fatal, history >>

\* Mutant of GS_Fill: the handler is enabled whatever callback_count_ is.
GS_FillEnables(t) ==
  /\ Runs(t, "gs_fill")
  /\ EnableHandler
  /\ state' = [state EXCEPT ![t] = [interrupts |-> state[t].interrupts,
                                    frequency |-> frequency_,
                                    callback_count |-> callback_count_]]
  /\ Goto(t, "gs_return")
  /\ UNCHANGED << tok, it, handlerVars, registry, callback_count_,
                  interrupts_, config, startup, control_lock_, signal_lock_,
                  sourceVars, environment, fatal, history >>

GS_Fill(t) ==
  /\ Runs(t, "gs_fill")
  /\ IF callback_count_ > 0 THEN EnableHandler ELSE UNCHANGED sigaction
  /\ state' = [state EXCEPT ![t] = [interrupts |-> state[t].interrupts,
                                    frequency |-> frequency_,
                                    callback_count |-> callback_count_]]
  /\ Goto(t, "gs_return")
  /\ UNCHANGED << tok, it, handlerVars, registry, callback_count_,
                  interrupts_, config, startup, control_lock_, signal_lock_,
                  sourceVars, environment, fatal, history >>

\* The lock is released and the caller takes the snapshot.
GS_Return(t) ==
  /\ Runs(t, "gs_return")
  /\ control_lock_' = NoThread
  /\ state' = [state EXCEPT ![t] = NoState]
  /\ Goto(t, "idle")
  /\ UNCHANGED << tok, it, handlerVars, registry, callback_count_,
                  interrupts_, config, startup, signal_lock_, sigaction,
                  sourceVars, environment, fatal, history >>

\* ---- ProfileHandler::SignalHandler ----
\* Deliveries that have not yet counted themselves in interrupts_.
Uncounted == Cardinality({ t \in Threads : hpc[t] = "sh_lock" })

\* The OS starts the handler on thread t, on top of whatever t was running.
Deliver(t) ==
  /\ ~fatal
  /\ sigaction = "SignalHandler"
  /\ hpc[t] = "none"
  /\ interrupts_ + Uncounted < MaxInterrupts
  /\ saved_errno' = [saved_errno EXCEPT ![t] = errno[t]]
  /\ hpc' = [hpc EXCEPT ![t] = "sh_lock"]
  /\ UNCHANGED << pc, locals, calls, sh_ticks, errno, registry, callback_count_,
                  interrupts_, config, startup, control_lock_, signal_lock_,
                  sigaction, sourceVars, environment, fatal, history >>

\* One callback invocation: (*it)->callback(sig, sinfo, ucontext, ticks,
\* (*it)->callback_arg), as the callback sees it.
Invocation(token, ticks) ==
  [token |-> token,
   callback |-> heap[token].callback,
   callback_arg |-> heap[token].callback_arg,
   ticks |-> ticks]

\* Mutant of Walk: the loop starts after begin().
RECURSIVE WalkAfterBegin(_, _, _)
WalkAfterBegin(i, ticks, acc) ==
  IF i + 1 <= Len(callbacks_)
    THEN WalkAfterBegin(i + 1, ticks,
                        Append(acc, Invocation(callbacks_[i + 1], ticks)))
    ELSE acc

\* The for loop from iterator i to end(): the invocations it makes, after acc.
RECURSIVE Walk(_, _, _)
Walk(i, ticks, acc) ==
  IF i <= Len(callbacks_)
    THEN Walk(i + 1, ticks, Append(acc, Invocation(callbacks_[i], ticks)))
    ELSE acc

\* ThreadProfileEventSource::GetTicksSinceLastCall, from the specification
\* (4.1): normally 1, more when periods were coalesced, 0 to suppress.
WallclockTicks == 0..MaxTicks

\* event_source_->GetTicksSinceLastCall(): what the call can return.
TicksSinceLastCall ==
  IF event_source_ = "thread-wallclock" THEN WallclockTicks
                                        ELSE { GetTicksSinceLastCall }

\* The invocations of one delivery: none when ticks is 0.
Dispatch(ticks) == IF ticks # 0 THEN Walk(1, ticks, << >>) ELSE << >>

\* Mutant of SH_Lock: the handler does not wait for signal_lock_.
SH_LockNoWait(t) ==
  /\ ~fatal
  /\ hpc[t] = "sh_lock"
  /\ signal_lock_' = << t, "handler" >>
  /\ interrupts_' = interrupts_ + 1
  /\ \E n \in TicksSinceLastCall :
       /\ sh_ticks' = [sh_ticks EXCEPT ![t] = n]
       /\ calls' = [calls EXCEPT ![t] = Dispatch(n)]
  /\ errno' = [errno EXCEPT ![t] = IF calls'[t] # << >> THEN 1 ELSE @]
  /\ hpc' = [hpc EXCEPT ![t] = "sh_unlock"]
  /\ UNCHANGED << pc, locals, saved_errno, registry, callback_count_,
                  config, startup, control_lock_, sigaction, sourceVars, environment,
                  fatal, history >>

\* Mutant of SH_Lock: interrupts_ grows by the tick count.
SH_LockCountsTicks(t) ==
  /\ ~fatal
  /\ hpc[t] = "sh_lock"
  /\ signal_lock_ = Unheld
  /\ signal_lock_' = << t, "handler" >>
  /\ \E n \in TicksSinceLastCall :
       /\ interrupts_' = interrupts_ + n
       /\ sh_ticks' = [sh_ticks EXCEPT ![t] = n]
       /\ calls' = [calls EXCEPT ![t] = Dispatch(n)]
  /\ errno' = [errno EXCEPT ![t] = IF calls'[t] # << >> THEN 1 ELSE @]
  /\ hpc' = [hpc EXCEPT ![t] = "sh_unlock"]
  /\ UNCHANGED << pc, locals, saved_errno, registry, callback_count_,
                  config, startup, control_lock_, sigaction, sourceVars, environment,
                  fatal, history >>

\* SpinLockHolder sl(&signal_lock_), ++interrupts_ and the walk, which runs
\* with the lock held. A callback makes calls that fail, and so leaves its own
\* value in errno.
SH_Lock(t) ==
  /\ ~fatal
  /\ hpc[t] = "sh_lock"
  /\ signal_lock_ = Unheld
  /\ signal_lock_' = << t, "handler" >>
  /\ interrupts_' = interrupts_ + 1
  /\ \E n \in TicksSinceLastCall :
       /\ sh_ticks' = [sh_ticks EXCEPT ![t] = n]
       /\ calls' = [calls EXCEPT ![t] = Dispatch(n)]
  /\ errno' = [errno EXCEPT ![t] = IF calls'[t] # << >> THEN 1 ELSE @]
  /\ hpc' = [hpc EXCEPT ![t] = "sh_unlock"]
  /\ UNCHANGED << pc, locals, saved_errno, registry, callback_count_,
                  config, startup, control_lock_, sigaction, sourceVars, environment,
                  fatal, history >>

\* Mutant of SH_Unlock: errno is left as the callbacks left it.
SH_UnlockKeepsErrno(t) ==
  /\ ~fatal
  /\ hpc[t] = "sh_unlock"
  /\ signal_lock_' = Unheld
  /\ saved_errno' = [saved_errno EXCEPT ![t] = 0]
  /\ calls' = [calls EXCEPT ![t] = << >>]
  /\ sh_ticks' = [sh_ticks EXCEPT ![t] = 0]
  /\ hpc' = [hpc EXCEPT ![t] = "none"]
  /\ UNCHANGED << pc, locals, errno, registry, callback_count_, interrupts_,
                  config, startup, control_lock_, sigaction, sourceVars, environment,
                  fatal, history >>

\* The lock is released, errno = saved_errno, and the handler returns.
SH_Unlock(t) ==
  /\ ~fatal
  /\ hpc[t] = "sh_unlock"
  /\ signal_lock_' = Unheld
  /\ errno' = [errno EXCEPT ![t] = saved_errno[t]]
  /\ saved_errno' = [saved_errno EXCEPT ![t] = 0]
  /\ calls' = [calls EXCEPT ![t] = << >>]
  /\ sh_ticks' = [sh_ticks EXCEPT ![t] = 0]
  /\ hpc' = [hpc EXCEPT ![t] = "none"]
  /\ UNCHANGED << pc, locals, registry, callback_count_, interrupts_,
                  config, startup, control_lock_, sigaction, sourceVars, environment,
                  fatal, history >>

\* ---- the program ----
Next ==
  \E t \in Threads :
    \/ RT_Lock(t) \/ RT_Body(t)
    \/ (\E c \in Consumers : RC_Lock(t, c))
    \/ RC_Disable(t) \/ RC_SigLock(t) \/ RC_Push(t)
    \/ RC_Count(t) \/ RC_Return(t)
    \/ (\E token \in TokenIds : UC_Lock(t, token))
    \/ UC_SigLock(t) \/ UC_Erase(t) \/ UC_Count(t)
    \/ RS_Lock(t) \/ RS_Disable(t) \/ RS_SigLock(t) \/ RS_Loop(t) \/ RS_Count(t)
    \/ GS_Lock(t) \/ GS_Disable(t) \/ GS_SigLock(t) \/ GS_Read(t)
    \/ GS_Fill(t) \/ GS_Return(t)
    \/ Deliver(t) \/ SH_Lock(t) \/ SH_Unlock(t)

Spec == Init /\ [][Next]_vars

\* ---- the program under fair scheduling ----
\* A step of thread t that waits for nothing: the code between two lock
\* acquisitions, of an operation or of the handler (every callback returns).
Continues(t) ==
  \/ RT_Body(t)
  \/ RC_Disable(t) \/ RC_Push(t) \/ RC_Count(t) \/ RC_Return(t)
  \/ UC_Erase(t) \/ UC_Count(t)
  \/ RS_Disable(t) \/ RS_Loop(t) \/ RS_Count(t)
  \/ GS_Disable(t) \/ GS_Read(t) \/ GS_Fill(t) \/ GS_Return(t)
  \/ SH_Unlock(t)

\* SpinLockHolder sl(&signal_lock_) in an operation of thread t.
AcquiresInner(t) ==
  RC_SigLock(t) \/ UC_SigLock(t) \/ RS_SigLock(t) \/ GS_SigLock(t)

\* A running thread keeps running, and a thread that spins on signal_lock_
\* gets it if the lock is free again and again.
Fairness ==
  \A t \in Threads :
    /\ WF_vars(Continues(t))
    /\ SF_vars(AcquiresInner(t))
    /\ SF_vars(SH_Lock(t))

LiveSpec == Spec /\ Fairness

\* ---- the program with the thread-wallclock source ----
\* The singleton as constructed with CPUPROFILE_EVENT=thread-wallclock.
InitWallclock ==
  /\ Constructed
  /\ environ = [NoEnvironment EXCEPT !.CPUPROFILE_EVENT = SetTo("thread-wallclock")]
  /\ frequency_ \in Frequencies(environ)
  /\ event_source_ = BuildEventSource(environ)
  /\ faulty = FALSE
  /\ redetection = Untracked

WallclockSpec == InitWallclock /\ [][Next]_vars

\* ---- the program with the history of registrations kept ----
\* Init, with the registrations since the last Reset and the registered
\* threads recorded from here on.
InitHistory ==
  /\ Constructed
  /\ environ = NoEnvironment
  /\ frequency_ = kDefaultFrequency
  /\ event_source_ = "timer-cpu"
  /\ faulty = FALSE
  /\ redetection = NotReset

HistorySpec == InitHistory /\ [][Next]_vars

\* ---- the program on an OS that may refuse its calls ----
\* The singleton as constructed with no variable set or with
\* CPUPROFILE_FREQUENCY=1, on an OS that refuses no call or that may refuse any.
InitFaulty ==
  /\ Constructed
  /\ \E fr \in { NotSet(<< >>), SetTo(<< "1" >>) } :
       /\ environ = [NoEnvironment EXCEPT !.CPUPROFILE_FREQUENCY = fr]
       /\ frequency_ \in Frequencies(environ)
  /\ event_source_ = BuildEventSource(environ)
  /\ faulty \in BOOLEAN
  /\ redetection = Untracked

\* RAW_CHECK(0 == getitimer(...)) in IsTimerRunning, or
\* RAW_CHECK(sigaction(...) == 0) in EnableHandler or DisableHandler, fails
\* in the call thread t is about to make: the process ends there.
RawCheckFails(t) ==
  /\ faulty
  /\ \/ /\ Runs(t, "rt_body")
        /\ event_source_ # "thread-wallclock"
        /\ timer_sharing_ = "TIMERS_ONE_SET"
     \/ \E at \in { "rc_disable", "rs_disable", "gs_disable", "rc_count" } :
          Runs(t, at)
     \/ Runs(t, "uc_count") /\ callback_count_ - 1 > 0
     \/ Runs(t, "gs_fill") /\ callback_count_ > 0
     \/ Runs(t, "idle") /\ control_lock_ = NoThread /\ callback_count_ > 0
  /\ fatal' = TRUE
  /\ UNCHANGED << pc, locals, handlerVars, registry, callback_count_,
                  interrupts_, config, startup, control_lock_, signal_lock_,
                  sigaction, sourceVars, environment, history >>

NextFaulty == Next \/ \E t \in Threads : RawCheckFails(t)

FaultySpec == InitFaulty /\ [][NextFaulty]_vars

(***************************************************************************)
(* The claims.                                                             *)
(***************************************************************************)
\* The positions of RegisterCallback.
RCBeforePush == { "rc_disable", "rc_siglock", "rc_push" }
RCAfterPush == { "rc_count", "rc_return" }

\* The tokens that exist: allocated and not deleted.
LiveTokens == { a \in TokenIds : heap[a] # Free }

\* s without its entries equal to x, the others in their order.
Without(s, x) ==
  LET F[i \in 0..Len(s)] ==
        IF i = 0 THEN << >>
        ELSE IF s[i] = x THEN F[i - 1] ELSE Append(F[i - 1], s[i])
  IN F[Len(s)]

\* C1: the callback_count that GetState reports is the number of tokens in
\* the registry at that moment (its length, the number of distinct tokens in
\* it, and the number of tokens that exist), and so is callback_count_
\* whenever no operation holds control_lock_.
C1_CountIsRegistrySize ==
  /\ control_lock_ = NoThread =>
       /\ callback_count_ = Len(callbacks_)
       /\ callback_count_ = Cardinality(LiveTokens)
  /\ \A t \in Threads : pc[t] = "gs_return" =>
       /\ state[t].callback_count = Len(callbacks_)
       /\ state[t].callback_count = Cardinality(Range(callbacks_))
       /\ state[t].callback_count = Cardinality(LiveTokens)

\* C1 witness: GetState reports two callbacks after a signal was delivered.
C1_Witness ==
  \E t \in Threads :
    /\ pc[t] = "gs_return"
    /\ state[t].callback_count = 2
    /\ state[t].interrupts >= 1

\* C2: the token RegisterCallback allocated is a token that exists and is not
\* in the registry before it is pushed, and is in it exactly once afterwards;
\* the registry never holds a token twice, also when two tokens hold the same
\* callback and argument; and the step of UnregisterCallback(t) that erases
\* shortens the registry by one entry, the one equal to t, the others keeping
\* their order.
C2_Registry ==
  /\ \A i, j \in 1..Len(callbacks_) : callbacks_[i] = callbacks_[j] => i = j
  /\ \A t \in Threads :
       /\ pc[t] \in RCBeforePush =>
            tok[t] \in LiveTokens /\ tok[t] \notin Range(callbacks_)
       /\ pc[t] \in RCAfterPush =>
            Cardinality({ i \in 1..Len(callbacks_) : callbacks_[i] = tok[t] }) = 1

C2_EraseStep ==
  \A t \in Threads :
    (pc[t] = "uc_erase" /\ pc'[t] = "uc_count") =>
      /\ Len(callbacks_') = Len(callbacks_) - 1
      /\ callbacks_' = Without(callbacks_, tok[t])
      /\ heap'[tok[t]] = Free
      /\ \A a \in TokenIds \ {tok[t]} : heap'[a] = heap[a]

C3_Invocations ==
  \A t \in Threads :
    (hpc[t] = "sh_unlock" /\ GetTicksSinceLastCall > 0) =>
      /\ Len(calls[t]) = Len(callbacks_)
      /\ \A i \in 1..Len(callbacks_) :
           /\ calls[t][i].token = callbacks_[i]
           /\ calls[t][i].token \in LiveTokens
           /\ calls[t][i].callback = heap[callbacks_[i]].callback
           /\ calls[t][i].callback_arg = heap[callbacks_[i]].callback_arg
           /\ calls[t][i].ticks = GetTicksSinceLastCall

C3_GrowsAtTail ==
  Len(callbacks_') > Len(callbacks_) =>
    /\ Len(callbacks_') = Len(callbacks_) + 1
    /\ SubSeq(callbacks_', 1, Len(callbacks_)) = callbacks_
    /\ \E t \in Threads : pc[t] = "rc_push" /\ callbacks_'[Len(callbacks_')] = tok[t]

C3_DispatchInRegistrationOrder == [](C3_Invocations) /\ [][C3_GrowsAtTail]_vars

\* C3 witness: a delivery has invoked two tokens with different arguments,
\* the later registered one last.
C3_Witness ==
  \E t \in Threads :
    /\ hpc[t] = "sh_unlock"
    /\ Len(calls[t]) = 2
    /\ calls[t][1].callback_arg = "argB"
    /\ calls[t][2].callback_arg = "argA"

\* The positions of RegisterCallback.
RCPositions == RCBeforePush \cup RCAfterPush

\* The registry is empty and counted as empty.
Quiet == callbacks_ = << >> /\ callback_count_ = 0

\* C4: the step that ends Reset leaves the registry empty and callback_count_
\* 0; from then on, as long as no RegisterCallback is in progress, every step
\* (of RegisterThread, GetState, the handler of a delivery, ...) keeps them so
\* and invokes no callback.
C4_ResetStep ==
  \A t \in Threads : (pc[t] = "rs_count" /\ pc'[t] = "idle") => Quiet'

C4_QuietStep ==
  (/\ Quiet
   /\ \A t \in Threads : pc[t] \notin RCPositions /\ pc'[t] \notin RCPositions)
  => /\ Quiet'
     /\ \A t \in Threads : calls'[t] = calls[t] \/ calls'[t] = << >>

C4_QuietAfterReset == [][C4_ResetStep /\ C4_QuietStep]_vars

\* C4 witness: Reset has run and RegisterThread after it; the handler of a
\* delivery that started before Reset disabled the signal has then taken the
\* lock and invoked nothing.
C4_Witness ==
  /\ detection = WasReset
  /\ timer_sharing_ = "TIMERS_ONE_SET"
  /\ Quiet
  /\ control_lock_ = NoThread
  /\ \E t \in Threads : hpc[t] = "sh_unlock" /\ calls[t] = << >>

\* C5: the step of UnregisterCallback that finds its token absent from the
\* registry ends in the fatal state and leaves the signal disposition, the
\* registry and its tokens, callback_count_, the inner lock and the event
\* source (sharing state, timers) as they were.
C5_UnknownTokenStep ==
  \A t \in Threads : \A token \in TokenIds :
    (UC_Lock(t, token) /\ token \notin Range(callbacks_)) =>
      /\ fatal'
      /\ UNCHANGED << sigaction, callbacks_, heap, callback_count_,
                      signal_lock_, timer_sharing_, timer >>

C5_UnknownTokenFatal == [][C5_UnknownTokenStep]_vars

\* C5 witness: the process ended on an UnregisterCallback of a deleted token
\* while other callbacks were registered and the handler installed.
C5_Witness ==
  /\ fatal
  /\ sigaction = "SignalHandler"
  /\ callbacks_ # << >>
  /\ \E t \in Threads : control_lock_ = t /\ heap[tok[t]] = Free

\* C6: on an instance that was never reset, the first RegisterThread finds
\* TIMERS_UNTOUCHED, starts the caller's timer and sets TIMERS_ONE_SET; the
\* second one, from another thread, sets TIMERS_SHARED exactly when the OS
\* timer is one per process and TIMERS_SEPARATE exactly when it is one per
\* thread, and then the timers of both threads are running.
C6_DetectionStep ==
  \A t \in Threads :
    RT_Body(t) =>
      /\ detection = Fresh =>
           /\ timer_sharing_ = "TIMERS_UNTOUCHED"
           /\ timer_sharing_' = "TIMERS_ONE_SET"
           /\ timer'[t]
      /\ (detection.kind = "first" /\ detection.first # t) =>
           /\ timer_sharing_ = "TIMERS_ONE_SET"
           /\ (timer_sharing_' = "TIMERS_SHARED") <=> osShared
           /\ (timer_sharing_' = "TIMERS_SEPARATE") <=> ~osShared
           /\ ~osShared => timer'[t] /\ timer'[detection.first]

C6_SharingDetection == [][C6_DetectionStep]_vars

\* C6 witness: per-thread timers were detected, and two threads' timers run.
C6_Witness ==
  /\ ~osShared
  /\ detection = Distinct
  /\ timer_sharing_ = "TIMERS_SEPARATE"
  /\ Cardinality({ t \in Threads : timer[t] }) >= 2

\* C7 as stated: whenever the sharing state is TIMERS_SHARED and no operation
\* holds control_lock_, a timer is running exactly when callback_count_ > 0.
C7_Original ==
  (timer_sharing_ = "TIMERS_SHARED" /\ control_lock_ = NoThread) =>
    ((\E t \in Threads : timer[t]) <=> (callback_count_ > 0))

\* C7 as amended: with a process-wide OS timer, whenever the sharing state is
\* TIMERS_SHARED and no operation holds control_lock_, the timer is running
\* exactly when callback_count_ > 0.
C7_SharedTimerIffCallbacks ==
  (osShared /\ timer_sharing_ = "TIMERS_SHARED" /\ control_lock_ = NoThread) =>
    \A t \in Threads : timer[t] <=> (callback_count_ > 0)

\* C7 witness: the shared timer is stopped with no callback left, after
\* callbacks had been registered and signals delivered.
C7_Witness ==
  /\ osShared
  /\ timer_sharing_ = "TIMERS_SHARED"
  /\ control_lock_ = NoThread
  /\ callback_count_ = 0
  /\ interrupts_ >= 1
  /\ \A t \in Threads : ~timer[t]

\* A step that stops a timer that was running.
StopsATimer == \E t \in Threads : timer[t] /\ ~timer'[t]

\* C8 as stated, on an instance that was never Reset and whose sharing state
\* was never TIMERS_SHARED (every running timer was then started by
\* RegisterThread): with per-thread timers, no step stops a running timer.
C8_Original ==
  [][(/\ ~osShared
      /\ detection.kind \in {"fresh", "first", "distinct"}
      /\ detection'.kind # "reset") => ~StopsATimer]_vars

\* C8 as amended: with per-thread timers, a step that neither starts nor ends
\* in TIMERS_SHARED stops no running timer, whatever the calls before it; and
\* on an instance that was never Reset and whose first two RegisterThread
\* calls came from two different threads, the sharing state is never
\* TIMERS_SHARED.
C8_KeepsRunningStep ==
  ~osShared =>
    /\ (timer_sharing_ # "TIMERS_SHARED" /\ timer_sharing_' # "TIMERS_SHARED")
         => ~StopsATimer
    /\ detection'.kind \in {"fresh", "first", "distinct"}
         => timer_sharing_' # "TIMERS_SHARED"

C8_SeparateTimerKeepsRunning == [][C8_KeepsRunningStep]_vars

\* C8 witness: per-thread timers run for two threads with no callback left,
\* after callbacks had been registered and signals delivered.
C8_Witness ==
  /\ ~osShared
  /\ detection = Distinct
  /\ callback_count_ = 0
  /\ interrupts_ >= 1
  /\ control_lock_ = NoThread
  /\ Cardinality({ t \in Threads : timer[t] }) >= 2

\* C9: a step that changes the sharing state away from TIMERS_SHARED or
\* TIMERS_SEPARATE is the step that ends Reset.
C9_SharingStableStep ==
  (timer_sharing_ \in {"TIMERS_SHARED", "TIMERS_SEPARATE"}
     /\ timer_sharing_' # timer_sharing_)
  => \E t \in Threads : pc[t] = "rs_count" /\ pc'[t] = "idle"

C9_SharingStable == [][C9_SharingStableStep]_vars

\* C9 witness: RegisterThread is called again, with shared timers detected and
\* no callback registered.
C9_Witness ==
  \E t \in Threads :
    /\ pc[t] = "rt_body"
    /\ timer_sharing_ = "TIMERS_SHARED"
    /\ callback_count_ = 0
    /\ interrupts_ >= 1

\* The positions at which an operation holds signal_lock_.
InnerPositions == { "rc_push", "uc_erase", "rs_loop", "gs_read" }

\* C10: a thread whose operation holds the inner lock holds the outer lock
\* and has the signal ignored, and no handler runs or waits on that thread;
\* an operation is at a position inside its inner critical section exactly
\* when it holds the inner lock.
C10_LockOrder ==
  \A t \in Threads :
    /\ (pc[t] \in InnerPositions) <=> (signal_lock_ = << t, "mutator" >>)
    /\ signal_lock_ = << t, "mutator" >> =>
         /\ control_lock_ = t
         /\ sigaction = "SIG_IGN"
         /\ hpc[t] = "none"

\* C10 witness: an operation holds the inner lock while the handler of a
\* delivery on another thread waits for it.
C10_Witness ==
  \E t, u \in Threads :
    /\ t # u
    /\ signal_lock_ = << t, "mutator" >>
    /\ hpc[u] = "sh_lock"

\* C11: at most one ProfileHandler object is ever constructed, instance_ is
\* NULL or that object, and every thread to which Instance() has returned
\* holds that object, whose constructor has finished (strategy chosen,
\* frequency set, signal ignored) and is run by no thread any more.
C11_ConstructedOnce ==
  /\ objects <= 1
  /\ instance_ \in { NULL, 1 }
  /\ \A t \in Threads :
       ret[t] # NULL =>
         /\ ret[t] = instance_
         /\ objects = 1
         /\ event_source_ \in { "timer-cpu", "timer-realtime", "thread-wallclock" }
         /\ frequency_ \in 1..kMaxFrequency
         /\ sigaction = "SIG_IGN"
         /\ \A u \in Threads : ipc[u] \notin { "ctor", "assign" }

\* C11 witness: Instance() has returned the object to one first caller while
\* another, who had called before the object existed, is still on its way
\* through Instance().
C11_Witness ==
  \E t, u \in Threads :
    /\ t # u
    /\ pthreads = "linked"
    /\ ret[t] = 1
    /\ ret[u] = NULL
    /\ ipc[u] = "check"
    /\ once_ = "done"

\* The override is a decimal integer: digits and nothing else.
IsInteger(s) == s # << >> /\ \A i \in 1..Len(s) : IsDigit(s[i])

\* The override is not a number, or is a number followed by something else
\* than a digit.
IsMalformed(s) ==
  \/ s = << >>
  \/ ~IsDigit(s[1]) /\ ~IsSpace(s[1]) /\ s[1] \notin {"+", "-"}
  \/ IsDigit(s[1]) /\ ~IsInteger(s)

\* The frequency the claim gives for an integer override: itself up to
\* kMaxFrequency, kMaxFrequency above, kDefaultFrequency for 0.
ClaimedFrequency(s) ==
  LET v == ReadDigits(s, 1, Len(s) + 1, [hi |-> 0, lo |-> 0, overflow |-> FALSE])
  IN IF v.overflow \/ v.hi > 0 \/ v.lo > kMaxFrequency THEN kMaxFrequency
     ELSE IF v.lo = 0 THEN kDefaultFrequency
     ELSE v.lo

\* C12 as stated: once the singleton is constructed, frequency_ is in
\* [1, kMaxFrequency]; it is kDefaultFrequency when the override is absent or
\* malformed or 0, the override's value when that is in 1..kMaxFrequency, and
\* kMaxFrequency for every larger integer.
C12_Original ==
  instance_ # NULL =>
    LET fr == environ.CPUPROFILE_FREQUENCY
    IN /\ frequency_ \in 1..kMaxFrequency
       /\ ~fr.set => frequency_ = kDefaultFrequency
       /\ (fr.set /\ IsMalformed(fr.value)) => frequency_ = kDefaultFrequency
       /\ (fr.set /\ IsInteger(fr.value)) => frequency_ = ClaimedFrequency(fr.value)

\* A step of Reset on thread t.
ResetStep(t) ==
  RS_Lock(t) \/ RS_Disable(t) \/ RS_SigLock(t) \/ RS_Loop(t) \/ RS_Count(t)

\* C13: no step of Reset changes interrupts_, frequency_ or event_source_;
\* no step at all lowers interrupts_; and the count GetState reads is
\* interrupts_ at that moment, so that a later GetState never reports less.
C13_Step ==
  /\ \A t \in Threads :
       /\ ResetStep(t) => UNCHANGED << interrupts_, frequency_, event_source_ >>
       /\ GS_Read(t) => state'[t].interrupts = interrupts_
  /\ interrupts_' >= interrupts_
  /\ UNCHANGED << frequency_, event_source_ >>

C13_ResetKeepsCounters == [][C13_Step]_vars

\* C13 witness: GetState reports a delivery counted before a Reset.
C13_Witness ==
  \E t \in Threads :
    /\ pc[t] = "gs_return"
    /\ detection = WasReset
    /\ state[t].interrupts >= 1
    /\ state[t].callback_count = 0
    /\ state[t].frequency = kDefaultFrequency

\* The step of thread t calls StartTimer.
Starts(t) ==
  /\ event_source_ # "thread-wallclock"
  /\ \/ /\ RT_Body(t)
        /\ \/ timer_sharing_ \in { "TIMERS_UNTOUCHED", "TIMERS_SEPARATE" }
           \/ timer_sharing_ = "TIMERS_ONE_SET" /\ ~IsTimerRunning(t)
     \/ /\ RC_Count(t)
        /\ callback_count_' = 1
        /\ timer_sharing_ = "TIMERS_SHARED"

\* The step of thread t calls StopTimer.
Stops(t) ==
  /\ event_source_ # "thread-wallclock"
  /\ \/ /\ RT_Body(t)
        /\ timer_sharing_ = "TIMERS_ONE_SET" /\ IsTimerRunning(t)
        /\ callback_count_ = 0
     \/ UC_Count(t) /\ callback_count_' = 0 /\ timer_sharing_ = "TIMERS_SHARED"
     \/ RS_Count(t) /\ timer_sharing_ = "TIMERS_SHARED"

\* C14: a step that calls StartTimer leaves the caller's timer running, and
\* one that calls StopTimer leaves it stopped, unless the process ends in the
\* fatal state; a refused getitimer or sigaction ends in the fatal state.
C14_Step ==
  \A t \in Threads :
    /\ Starts(t) => timer'[t] \/ fatal'
    /\ Stops(t) => ~timer'[t] \/ fatal'
    /\ RawCheckFails(t) => fatal'

C14_Original == [][C14_Step]_vars

\* The strategy the claim gives for an environment: an empty source override
\* counts as not given.
ClaimedEventSource(env) ==
  LET given == env.CPUPROFILE_EVENT.set /\ env.CPUPROFILE_EVENT.value # ""
  IN IF given /\ env.CPUPROFILE_EVENT.value \in { "timer-realtime", "thread-wallclock" }
       THEN env.CPUPROFILE_EVENT.value
     ELSE IF ~given /\ env.CPUPROFILE_REALTIME.set THEN "timer-realtime"
     ELSE "timer-cpu"

\* C15: the strategy of the constructed singleton is the named one for a
\* source override of "timer-realtime" or "thread-wallclock", the real-time
\* timer when no override is given (an empty one counting as not given) and
\* the real-time flag is present, and the CPU-time timer otherwise.
C15_Original ==
  instance_ # NULL => event_source_ = ClaimedEventSource(environ)

\* The claim but for the set and empty override.
C15_OtherCases ==
  instance_ # NULL /\ ~(environ.CPUPROFILE_EVENT.set /\ environ.CPUPROFILE_EVENT.value = "")
    => event_source_ = ClaimedEventSource(environ)

\* C16: whenever control_lock_ is free, the signal handler is installed
\* exactly when callback_count_ > 0, and the signal is ignored otherwise.
C16_EnabledIffCallbacks ==
  control_lock_ = NoThread =>
    /\ sigaction = "SignalHandler" <=> callback_count_ > 0
    /\ sigaction = "SIG_IGN" <=> callback_count_ = 0

\* C16 witness: after a Reset and a later RegisterCallback, no operation is
\* in progress, a callback is registered and the handler is installed.
C16_Witness ==
  /\ control_lock_ = NoThread
  /\ detection = WasReset
  /\ callback_count_ > 0
  /\ sigaction = "SignalHandler"
  /\ \A t \in Threads : pc[t] = "idle"

\* The positions at which UnregisterCallback and Reset remove and destroy tokens.
RemovalPositions == { "uc_erase", "rs_loop" }

\* While a handler is between taking and releasing signal_lock_, it is the
\* holder, no operation is at a removal position, and what it invokes exists.
C17_Exclusion ==
  \A h \in Threads : hpc[h] = "sh_unlock" =>
    /\ signal_lock_ = << h, "handler" >>
    /\ \A u \in Threads : pc[u] \notin RemovalPositions
    /\ \A i \in 1..Len(calls[h]) : heap[calls[h][i].token] # Free

\* The handler's walk starts with no operation inside its inner critical
\* section, over a registry whose tokens all exist; a step that destroys a
\* token or changes the registry is taken by the holder of signal_lock_, at
\* the position of that change, while no handler is inside its own.
C17_Step ==
  /\ \A h \in Threads : SH_Lock(h) =>
       /\ \A u \in Threads : pc[u] \notin InnerPositions
       /\ \A i \in 1..Len(callbacks_) : heap[callbacks_[i]] # Free
  /\ ((\E a \in TokenIds : heap[a] # Free /\ heap'[a] = Free)
        \/ callbacks_' # callbacks_) =>
       /\ \E t \in Threads : /\ signal_lock_ = << t, "mutator" >>
                             /\ pc[t] \in { "rc_push" } \cup RemovalPositions
                             /\ hpc[t] = "none"
       /\ \A h \in Threads : hpc[h] # "sh_unlock"

\* C17: the handler's walk and the removal and destruction of tokens by
\* UnregisterCallback or Reset never overlap: each happens with signal_lock_
\* held by the one doing it, so that the handler invokes only tokens that
\* exist and never sees a registry in the middle of a change.
C17_WalkExcludesRemoval == [](C17_Exclusion) /\ [][C17_Step]_vars

\* C17 witness: a handler is inside its walk of a non-empty registry on one
\* thread while UnregisterCallback or Reset on another waits for signal_lock_.
C17_Witness ==
  \E h, u \in Threads :
    /\ h # u
    /\ hpc[h] = "sh_unlock"
    /\ calls[h] # << >>
    /\ pc[u] \in { "uc_siglock", "rs_siglock" }
    /\ sigaction = "SIG_IGN"

\* A thread that runs neither an operation nor a handler holds no lock.
C18_LocksReleased ==
  ~fatal =>
    \A t \in Threads : pc[t] = "idle" /\ hpc[t] = "none" =>
      control_lock_ # t /\ signal_lock_[1] # t

\* C18: under fair scheduling, every operation that has taken control_lock_
\* returns and every handler that has started returns, unless the process
\* ends in the fatal state (UnregisterCallback of an unknown token); a thread
\* that has returned from both holds neither lock.
C18_EveryCallCompletes ==
  /\ [](C18_LocksReleased)
  /\ \A t \in Threads :
       /\ (pc[t] # "idle") ~> (pc[t] = "idle" \/ fatal)
       /\ (hpc[t] # "none") ~> (hpc[t] = "none" \/ fatal)

\* C18 witness: a handler has started on a thread whose operation holds
\* control_lock_ only, and is about to take signal_lock_.
C18_Witness ==
  \E t \in Threads :
    /\ control_lock_ = t
    /\ pc[t] \in { "rc_disable", "gs_disable", "rs_disable", "rt_body" }
    /\ hpc[t] = "sh_lock"
    /\ signal_lock_ = Unheld

\* The step takes the handler on thread t through ++interrupts_ and the walk.
Counts(t) == hpc[t] = "sh_lock" /\ hpc'[t] = "sh_unlock"

\* C19: the step of a handler that counts its delivery adds exactly 1 to
\* interrupts_, whatever the tick count; with 0 ticks it invokes nothing, and
\* otherwise one callback per registry entry; no other step, of the handler
\* or of anything else, changes interrupts_.
C19_Step ==
  /\ \A t \in Threads : Counts(t) =>
       /\ interrupts_' = interrupts_ + 1
       /\ sh_ticks'[t] \in TicksSinceLastCall
       /\ sh_ticks'[t] = 0 => calls'[t] = << >>
       /\ sh_ticks'[t] # 0 => Len(calls'[t]) = Len(callbacks_)
  /\ (\A t \in Threads : ~Counts(t)) => interrupts_' = interrupts_

C19_EveryDeliveryCountsOnce == [][C19_Step]_vars

\* C19 witness: a delivery with 0 ticks has been counted and has invoked
\* nothing, with a callback in the registry.
C19_Witness ==
  \E t \in Threads :
    /\ hpc[t] = "sh_unlock"
    /\ sh_ticks[t] = 0
    /\ calls[t] = << >>
    /\ callbacks_ # << >>
    /\ interrupts_ = 1

\* The step is one of the handler on thread t: its start, its counting and
\* walk, or its return.
Dispatches(t) == hpc'[t] # hpc[t]

\* C20: a step of the handler leaves the registry and its tokens,
\* callback_count_, the sharing state and the timers, the signal disposition,
\* the configuration, control_lock_ and every operation in progress as they
\* were, and changes interrupts_ only; the handler keeps the errno it found
\* on its thread and puts it back when it returns, and errno changes on no
\* thread outside a handler.
C20_Step ==
  \A t \in Threads :
    /\ Dispatches(t) =>
         /\ UNCHANGED << heap, callbacks_, callback_count_, timer_sharing_,
                         timer, sigaction, detection, frequency_,
                         event_source_, control_lock_, pc, tok, it, state,
                         fatal >>
         /\ hpc[t] = "none" => saved_errno'[t] = errno[t] /\ errno'[t] = errno[t]
         /\ hpc[t] # "none" /\ hpc'[t] # "none" => saved_errno'[t] = saved_errno[t]
         /\ hpc'[t] = "none" => errno'[t] = saved_errno[t]
    /\ hpc[t] = "none" /\ hpc'[t] = "none" => errno'[t] = errno[t]

C20_DispatchChangesOnlyInterrupts == [][C20_Step]_vars

\* C20 witness: a handler has walked a non-empty registry, its callbacks
\* have left their own value in errno, and it is about to return.
C20_Witness ==
  \E t \in Threads :
    /\ hpc[t] = "sh_unlock"
    /\ calls[t] # << >>
    /\ errno[t] # saved_errno[t]
    /\ interrupts_ = 1
    /\ pc[t] # "idle"

\* C21: after a Reset, the first RegisterThread finds TIMERS_UNTOUCHED, starts
\* the caller's timer and sets TIMERS_ONE_SET, and the second one, from
\* another thread, sets TIMERS_SHARED exactly when the OS timer is one per
\* process and TIMERS_SEPARATE exactly when it is one per thread, as on a
\* fresh instance, whatever happened before the Reset.
C21_Step ==
  \A t \in Threads :
    RT_Body(t) =>
      /\ redetection = Fresh =>
           /\ timer_sharing_ = "TIMERS_UNTOUCHED"
           /\ timer_sharing_' = "TIMERS_ONE_SET"
           /\ timer'[t]
      /\ (redetection.kind = "first" /\ redetection.first # t) =>
           /\ timer_sharing_ = "TIMERS_ONE_SET"
           /\ (timer_sharing_' = "TIMERS_SHARED") <=> osShared
           /\ (timer_sharing_' = "TIMERS_SEPARATE") <=> ~osShared

C21_Original == [][C21_Step]_vars

\* The claim where the OS timer is one per process, or where the second
\* caller's own timer is not running when it registers.
C21_WithoutLeftoverStep ==
  \A t \in Threads : (osShared \/ ~timer[t]) => (RT_Body(t) => C21_Step)

C21_WithoutLeftover == [][C21_WithoutLeftoverStep]_vars

\* C22: once some thread has called RegisterThread, whenever
\* callback_count_ > 0 and no operation is in progress, the timer of a
\* thread that has called RegisterThread is running (with a process-wide
\* timer after a Reset and a RegisterCallback, too).
C22_Original ==
  (/\ registered # {}
   /\ callback_count_ > 0
   /\ control_lock_ = NoThread
   /\ \A t \in Threads : pc[t] = "idle")
  => \E t \in registered : timer[t]

\* The claim on an instance that was never reset and whose first two
\* RegisterThread calls, if there were two, came from two threads.
C22_BeforeReset ==
  (redetection = NotReset /\ detection.kind \in { "first", "distinct" }) =>
    C22_Original

\* The claim with a process-wide timer only: it fails after a Reset, whose
\* TIMERS_UNTOUCHED makes RegisteredCallback start nothing.
C22_OnSharedTimers == osShared => C22_Original

\* The claim with a process-wide timer and a RegisterThread since the last
\* Reset.
C22_SharedAndDetecting ==
  (osShared /\ timer_sharing_ # "TIMERS_UNTOUCHED") => C22_Original
====
